---- MODULE Spec2Model ----
(***************************************************************************)
(* d2montecarlo.py: Monte Carlo simulation of power level progression.     *)
(*                                                                         *)
(* get_power_bumps is a pure lookup, run_simulation is a loop of "ticks"   *)
(* (one activity each) over eight gear slots, and run_scenario_analysis    *)
(* calls run_simulation N times and reduces the collected counts with the  *)
(* statistics module.                                                      *)
(*                                                                         *)
(* random.random() returns a float in [0, 1).  The model draws it from the *)
(* grid 0/Resolution .. (Resolution-1)/Resolution and writes a probability *)
(* p as the integer p * Resolution, so prime_chance ranges over            *)
(* 0..Resolution (0 is probability 0, Resolution is probability 1).        *)
(* random.randrange(8) is a draw from Slots.                               *)
(***************************************************************************)
EXTENDS Integers, Sequences, FiniteSets, TLC

VARIABLES
    power_cap,          \* run_simulation parameter
    starting_power,     \* run_simulation parameter
    target_power,       \* run_simulation parameter
    prime_chance,       \* run_simulation parameter, in units of 1/Resolution
    progression_rules,  \* run_simulation parameter: sequence of <<threshold, power_bump, prime_bump>>
    activity_count,     \* run_simulation local
    prime_count,        \* run_simulation local
    gear,               \* run_simulation local: Slots -> power
    account_power,      \* run_simulation local
    bumps,              \* run_simulation locals <<power_bump, prime_bump>>, <<>> while unassigned
    pc,                 \* the call in progress: "idle", "call", "loop", "done" (returned), "error" (raised)
    N,                  \* run_scenario_analysis parameter
    activity_counts,    \* run_scenario_analysis local
    prime_counts,       \* run_scenario_analysis local
    apc,                \* run_scenario_analysis: "none", "for", "in_run", "returned", "raised"
    result              \* what run_scenario_analysis returned or raised

params == <<power_cap, starting_power, target_power, prime_chance, progression_rules>>
locals == <<activity_count, prime_count, gear, account_power, bumps, pc>>
analysis == <<N, activity_counts, prime_counts, apc, result>>
vars == <<params, locals, analysis>>

----------------------------------------------------------------------------
(* Bounds of the model *)

\* ticks explored per run (activity_count is unbounded in the code)
MaxActivities == 3
\* grid of random.random() and of prime_chance
Resolution == 3
\* largest N of run_scenario_analysis
MaxN == 2
\* longest rule table handed to get_power_bumps on its own
MaxRules == 2
\* largest account_power handed to get_power_bumps on its own
MaxLookupPower == 5

(* Program constants *)

\* the eight gear slots: range(8), randrange(8), sum(gear) // 8
NumSlots == 8

Slots == 0 .. (NumSlots - 1)
RandomValues == 0 .. (Resolution - 1)

Min(a, b) == IF a <= b THEN a ELSE b
Max(a, b) == IF a >= b THEN a ELSE b

----------------------------------------------------------------------------
(* get_power_bumps *)

IndexError == <<"IndexError">>

RECURSIVE ScanRulesStrict(_, _, _)
ScanRulesStrict(ap, rules, i) ==
    IF i > Len(rules)
    THEN IF Len(rules) = 0 THEN IndexError
         ELSE <<rules[Len(rules)][2], rules[Len(rules)][3]>>
    ELSE IF ap > rules[i][1]
         THEN <<rules[i][2], rules[i][3]>>
         ELSE ScanRulesStrict(ap, rules, i + 1)

\* for threshold, power_bump, prime_bump in progression_rules[i..]:
\*     if account_power >= threshold: return power_bump, prime_bump
\* return progression_rules[-1][1], progression_rules[-1][2]
RECURSIVE ScanRules(_, _, _)
ScanRules(ap, rules, i) ==
    IF i > Len(rules)
    THEN IF Len(rules) = 0 THEN IndexError
         ELSE <<rules[Len(rules)][2], rules[Len(rules)][3]>>
    ELSE IF ap >= rules[i][1]
         THEN <<rules[i][2], rules[i][3]>>
         ELSE ScanRules(ap, rules, i + 1)

get_power_bumps(ap, rules) == ScanRules(ap, rules, 1)

----------------------------------------------------------------------------
(* run_simulation *)

RECURSIVE SumUpTo(_, _)
SumUpTo(g, n) == IF n < 0 THEN 0 ELSE g[n] + SumUpTo(g, n - 1)

\* sum(gear) // 8
AccountPower(g) == SumUpTo(g, NumSlots - 1) \div NumSlots

\* [starting_power for _ in range(8)]
InitialGear(start) == [s \in Slots |-> start]

PrimeFiresFlipped(r, chance) == chance <= r

\* random.random() <= prime_chance
PrimeFires(r, chance) == r <= chance

\* gear[slot] = min(max(account_power + prime_bump, gear[slot]), power_cap)
PrimeDrop(g, slot, ap, prime_bump, cap) ==
    [g EXCEPT ![slot] = Min(Max(ap + prime_bump, g[slot]), cap)]

RegularDropNoMax(g, slot, ap, power_bump, cap) ==
    [g EXCEPT ![slot] = Min(ap + power_bump, cap)]

\* gear[slot] = min(max(account_power + power_bump, gear[slot]), power_cap)
RegularDrop(g, slot, ap, power_bump, cap) ==
    [g EXCEPT ![slot] = Min(Max(ap + power_bump, g[slot]), cap)]

GearAfterTickRecomputed(g, ap, b, fires, prime_slot, slot, cap) ==
    LET g1 == IF fires THEN PrimeDrop(g, prime_slot, ap, b[2], cap) ELSE g
    IN  RegularDrop(g1, slot, AccountPower(g1), b[1], cap)

\* the two drops of one tick, both from the account_power of the tick's start
GearAfterTick(g, ap, b, fires, prime_slot, slot, cap) ==
    LET g1 == IF fires THEN PrimeDrop(g, prime_slot, ap, b[2], cap) ELSE g
    IN  RegularDrop(g1, slot, ap, b[1], cap)

\* the test of the while loop
LoopPc(ap, target) == IF ap < target THEN "loop" ELSE "done"

\* lines 54-57, up to the first test of the while loop
EnterRun ==
    /\ activity_count' = 0
    /\ prime_count' = 0
    /\ gear' = InitialGear(starting_power)
    /\ account_power' = AccountPower(InitialGear(starting_power))
    /\ bumps' = <<>>
    /\ pc' = LoopPc(AccountPower(InitialGear(starting_power)), target_power)

\* one iteration of the while loop and the loop test after it.  fires is the
\* outcome of random.random() <= prime_chance; prime_slot is the randrange(8)
\* of the prime drop (drawn only when it fires), slot that of the regular drop
TickWith(fires, prime_slot, slot) ==
    LET b == get_power_bumps(account_power, progression_rules)
    IN  IF b = IndexError
        THEN /\ activity_count' = activity_count + 1
             /\ pc' = "error"
             /\ UNCHANGED <<prime_count, gear, account_power, bumps>>
        ELSE LET g == GearAfterTick(gear, account_power, b, fires,
                                    prime_slot, slot, power_cap)
             IN  /\ activity_count' = activity_count + 1
                 /\ bumps' = b
                 /\ prime_count' = IF fires THEN prime_count + 1 ELSE prime_count
                 /\ gear' = g
                 /\ account_power' = AccountPower(g)
                 /\ pc' = LoopPc(AccountPower(g), target_power)

Tick ==
    /\ pc = "loop"
    /\ activity_count < MaxActivities
    /\ \E r \in RandomValues, slot \in Slots :
           IF PrimeFires(r, prime_chance)
           THEN \E prime_slot \in Slots : TickWith(TRUE, prime_slot, slot)
           ELSE TickWith(FALSE, slot, slot)
    /\ UNCHANGED <<params, analysis>>

----------------------------------------------------------------------------
(* Calls of run_simulation *)

\* the default table of run_simulation
DefaultRules == << <<400, 0, 3>>, <<297, 3, 4>>, <<196, 4, 5>>, <<0, 6, 7>> >>

\* tables sorted by descending threshold that end with the 0 catch-all
TwoTierRules == << <<2, 1, 2>>, <<0, 2, 3>> >>
SteepRules == << <<0, 1, 4>> >>
FlatRules == << <<0, 4, 4>> >>
\* no power bump from the starting power on, as in DefaultRules from 400 on
NoBumpRules == << <<1, 0, 1>>, <<0, 2, 3>> >>
\* malformed tables: ascending thresholds; no threshold the account power reaches
UnsortedRules == << <<0, 4, 4>>, <<2, 1, 1>> >>
UnreachedRules == << <<9, 4, 4>> >>
EmptyRules == << >>

Config(cap, start, target, chance, rules) ==
    [power_cap |-> cap, starting_power |-> start, target_power |-> target,
     prime_chance |-> chance, progression_rules |-> rules]

\* the run of the defaults with no prime chance: 400 -> 450, cap 550
DefaultScenario == Config(550, 400, 450, 0, DefaultRules)

RunConfigs ==
    { Config(3, 1, 2, 0, TwoTierRules),
      Config(3, 1, 2, Resolution, TwoTierRules),
      Config(5, 1, 2, 1, SteepRules),
      Config(2, 1, 2, 0, NoBumpRules),
      Config(5, 1, 2, 1, UnsortedRules),
      Config(5, 1, 2, 1, UnreachedRules),
      Config(5, 1, 2, 1, EmptyRules),
      DefaultScenario }

\* every call satisfies the preconditions of run_simulation
ValidConfig(c) ==
    /\ 0 < c.starting_power /\ c.starting_power < c.power_cap
    /\ c.starting_power < c.target_power /\ c.target_power <= c.power_cap
    /\ 0 <= c.prime_chance /\ c.prime_chance <= Resolution

SetParams(c) ==
    /\ power_cap = c.power_cap
    /\ starting_power = c.starting_power
    /\ target_power = c.target_power
    /\ prime_chance = c.prime_chance
    /\ progression_rules = c.progression_rules

\* run_simulation called on its own: the state at the first test of the loop
Init ==
    /\ \E c \in RunConfigs : ValidConfig(c) /\ SetParams(c)
    /\ activity_count = 0
    /\ prime_count = 0
    /\ gear = InitialGear(starting_power)
    /\ account_power = AccountPower(gear)
    /\ bumps = <<>>
    /\ pc = LoopPc(account_power, target_power)
    /\ N = 0
    /\ activity_counts = <<>>
    /\ prime_counts = <<>>
    /\ apc = "none"
    /\ result = [kind |-> "none"]

Next == Tick

Spec == Init /\ [][Next]_vars

----------------------------------------------------------------------------
(* Properties of run_simulation, checked under Spec *)

\* the rule table is one the preconditions allow: non-empty, no negative bump
ValidRules(rules) ==
    /\ rules # << >>
    /\ \A i \in 1 .. Len(rules) : rules[i][2] >= 0 /\ rules[i][3] >= 0

\* the bumps of the first rule, in list order, whose threshold is <= ap, and
\* of the last rule when there is none
FirstMatchBumps(ap, rules) ==
    LET matching == { i \in 1 .. Len(rules) : rules[i][1] <= ap }
        k == IF matching = {} THEN Len(rules)
             ELSE CHOOSE i \in matching : \A j \in matching : i <= j
    IN  <<rules[k][2], rules[k][3]>>

\* C1: every run with valid inputs exits its loop, whatever the draws, and
\* returns activity_count >= 1.  Slots are never lowered and never exceed
\* power_cap, so a run can only fail to exit by repeating a state of
\* (gear, account_power): the loop exits under every sequence of draws exactly
\* when no tick leaves gear as it found it (the draws of such a tick, repeated,
\* keep the loop where it is for ever).
C1_EveryRunTerminates ==
    [][ (ValidRules(progression_rules) /\ pc = "loop")
          => /\ gear' # gear
             /\ (pc' = "done" => activity_count' >= 1) ]_vars

\* C2: every slot stays within [starting_power, power_cap] and no tick lowers
\* a slot.
C2_SlotsBoundedAndMonotone ==
    [][ \A s \in Slots :
          /\ starting_power <= gear[s] /\ gear[s] <= power_cap
          /\ starting_power <= gear'[s] /\ gear'[s] <= power_cap
          /\ gear[s] <= gear'[s] ]_vars

\* a returned run in which a drop was clamped at power_cap (1 + 3 > 3) while
\* another slot still holds the starting power
C2_Witness ==
    /\ pc = "done"
    /\ progression_rules = TwoTierRules
    /\ \E s \in Slots : gear[s] = power_cap
    /\ \E s \in Slots : gear[s] = starting_power

\* C3: with bonus_chance = 0 no bonus event fires, whatever random.random()
\* returns: bonus_count is 0 in every state.
C3_NoPrimeAtZeroChance == prime_chance = 0 => prime_count = 0

\* C4: with bonus_chance = 1 a bonus event fires on every tick: bonus_count
\* equals activity_count after every tick and in the result.
C4_PrimeOnEveryTick ==
    prime_chance = Resolution => prime_count = activity_count

C4_Witness ==
    /\ prime_chance = Resolution
    /\ pc = "done"
    /\ activity_count >= 2

\* a table the callers must not pass: empty, not sorted by descending
\* threshold, or without a threshold <= ap
Malformed(rules, ap) ==
    \/ rules = << >>
    \/ \E i \in 1 .. (Len(rules) - 1) : rules[i][1] < rules[i + 1][1]
    \/ \A i \in 1 .. Len(rules) : rules[i][1] > ap

\* C8: a run given an empty or malformed rule table signals an error instead
\* of completing and returning a result computed from that table.
C8_MalformedTableRaises ==
    Malformed(progression_rules, starting_power) => pc # "done"

\* C9: a tick looks up the bumps, and makes both drops, from the account_power
\* of its start; the slot of the regular drop ends at
\* min(max(account_power + power_bump, old), power_cap), that of the bonus drop
\* at min(max(account_power + prime_bump, old), power_cap), a slot both draws
\* pick at min(max(account_power + prime_bump, account_power + power_bump, old),
\* power_cap), every other slot is unchanged (so at most two slots change), and
\* account_power is then floor(sum(gear) / 8) of the new gear.
C9_TickUsesStartOfTickPower ==
    [][ (pc = "loop" /\ pc' # "error") =>
          LET regular == account_power + bumps'[1]
              prime == account_power + bumps'[2]
              fires == prime_count' # prime_count
              changed == { x \in Slots : gear'[x] # gear[x] }
              total == SumUpTo(gear', NumSlots - 1)
          IN  /\ bumps' = FirstMatchBumps(account_power, progression_rules)
              /\ prime_count' \in {prime_count, prime_count + 1}
              /\ \E prime_slot \in Slots, slot \in Slots :
                    /\ changed \subseteq {prime_slot, slot}
                    /\ \A x \in {prime_slot, slot} :
                          gear'[x] =
                            Min(Max(gear[x],
                                    Max(IF x = slot THEN regular ELSE gear[x],
                                        IF fires /\ x = prime_slot
                                        THEN prime ELSE gear[x])),
                                power_cap)
              /\ Cardinality(changed) <= 2
              /\ NumSlots * account_power' <= total
              /\ total < NumSlots * account_power' + NumSlots ]_vars

\* after the first tick of a run whose bonus fired, one slot alone has changed
\* although the regular drop raises any slot it picks: both draws picked it
C9_Witness ==
    /\ activity_count = 1
    /\ prime_count = 1
    /\ bumps # << >>
    /\ bumps[1] > 0
    /\ Cardinality({ x \in Slots : gear[x] # starting_power }) = 1
    /\ \E x \in Slots : gear[x] = Min(starting_power + Max(bumps[1], bumps[2]), power_cap)

\* C10: in the default scenario without prime chance (400 -> 450, cap 550,
\* default table) account_power never increases: every slot stays 400,
\* account_power stays 400 and the run never returns.
C10_DefaultScenarioNeverAdvances ==
    (/\ power_cap = 550 /\ starting_power = 400 /\ target_power = 450
     /\ prime_chance = 0 /\ progression_rules = DefaultRules)
      => /\ \A s \in Slots : gear[s] = 400
         /\ account_power = 400
         /\ pc # "done"

----------------------------------------------------------------------------
(* get_power_bumps called on its own *)

LookupEntries == { <<0, 6, 7>>, <<2, 4, 5>>, <<4, 3, 4>> }

\* every table of at most MaxRules entries, in every order, the empty one too
LookupTables ==
    UNION { [1 .. n -> LookupEntries] : n \in 0 .. MaxRules }

InitLookup ==
    /\ account_power \in 0 .. MaxLookupPower
    /\ progression_rules \in LookupTables
    /\ bumps = << >>
    /\ pc = "call"
    /\ power_cap = 0
    /\ starting_power = 0
    /\ target_power = 0
    /\ prime_chance = 0
    /\ activity_count = 0
    /\ prime_count = 0
    /\ gear = InitialGear(0)
    /\ N = 0
    /\ activity_counts = << >>
    /\ prime_counts = << >>
    /\ apc = "none"
    /\ result = [kind |-> "none"]

\* get_power_bumps(account_power, progression_rules) returns or raises
Lookup ==
    /\ pc = "call"
    /\ LET b == get_power_bumps(account_power, progression_rules)
       IN  IF b = IndexError
           THEN pc' = "error" /\ bumps' = bumps
           ELSE pc' = "done" /\ bumps' = b
    /\ UNCHANGED <<params, analysis, activity_count, prime_count, gear,
                   account_power>>

NextLookup == Lookup

SpecLookup == InitLookup /\ [][NextLookup]_vars

\* C5: for every account_power and every non-empty table, sorted or not,
\* get_power_bumps returns the bumps of the first entry in list order whose
\* threshold is <= account_power, and those of the last entry when there is
\* none; it raises nothing and leaves the table as it was.
C5_FirstMatchOrLast ==
    [][ (pc = "call" /\ progression_rules # << >>)
          => /\ pc' = "done"
             /\ bumps' = FirstMatchBumps(account_power, progression_rules)
             /\ progression_rules' = progression_rules ]_vars

\* a lookup that returned from an unsorted table in which a later entry has a
\* higher threshold that account_power reaches too
C5_Witness ==
    /\ pc = "done"
    /\ Len(progression_rules) = 2
    /\ progression_rules[1][1] < progression_rules[2][1]
    /\ progression_rules[2][1] <= account_power
    /\ bumps = <<progression_rules[1][2], progression_rules[1][3]>>

----------------------------------------------------------------------------
(* run_scenario_analysis *)

RECURSIVE SumSeq(_)
SumSeq(q) == IF q = << >> THEN 0 ELSE Head(q) + SumSeq(Tail(q))

SeqMin(q) == CHOOSE x \in { q[i] : i \in 1 .. Len(q) } :
                 \A i \in 1 .. Len(q) : x <= q[i]
SeqMax(q) == CHOOSE x \in { q[i] : i \in 1 .. Len(q) } :
                 \A i \in 1 .. Len(q) : q[i] <= x

StatisticsMeanOnly(acts, primes) ==
    IF Len(acts) < 1
    THEN [kind |-> "StatisticsError"]
    ELSE [kind |-> "stats", samples |-> Len(acts),
          activity_sum |-> SumSeq(acts),
          activity_min |-> SeqMin(acts), activity_max |-> SeqMax(acts),
          prime_samples |-> Len(primes), prime_sum |-> SumSeq(primes)]

\* the dictionary of lines 91-103.  statistics.mean raises StatisticsError on
\* no data and statistics.stdev on fewer than two data points; the means and
\* the prime rate are kept as their numerators and denominators
Statistics(acts, primes) ==
    IF Len(acts) < 1
    THEN [kind |-> "StatisticsError"]
    ELSE IF Len(acts) < 2
    THEN [kind |-> "StatisticsError"]
    ELSE [kind |-> "stats", samples |-> Len(acts),
          activity_sum |-> SumSeq(acts),
          activity_min |-> SeqMin(acts), activity_max |-> SeqMax(acts),
          prime_samples |-> Len(primes), prime_sum |-> SumSeq(primes)]

AnalysisConfigs ==
    { Config(5, 1, 2, Resolution, FlatRules),
      Config(5, 1, 2, 1, EmptyRules) }

InitAnalysis ==
    /\ \E c \in AnalysisConfigs : ValidConfig(c) /\ SetParams(c)
    /\ N \in 0 .. MaxN
    /\ activity_counts = << >>
    /\ prime_counts = << >>
    /\ apc = "for"
    /\ result = [kind |-> "none"]
    /\ activity_count = 0
    /\ prime_count = 0
    /\ gear = InitialGear(starting_power)
    /\ account_power = AccountPower(gear)
    /\ bumps = << >>
    /\ pc = "idle"

\* for _ in range(N): run_simulation(...) is entered
CallRun ==
    /\ apc = "for"
    /\ Len(activity_counts) < N
    /\ EnterRun
    /\ apc' = "in_run"
    /\ UNCHANGED <<params, N, activity_counts, prime_counts, result>>

\* run_simulation returned: its counts are appended (the final gear is
\* dropped and the run's locals are gone)
CollectRun ==
    /\ apc = "in_run"
    /\ pc = "done"
    /\ activity_counts' = Append(activity_counts, activity_count)
    /\ prime_counts' = Append(prime_counts, prime_count)
    /\ activity_count' = 0
    /\ prime_count' = 0
    /\ gear' = InitialGear(starting_power)
    /\ account_power' = AccountPower(InitialGear(starting_power))
    /\ bumps' = << >>
    /\ pc' = "idle"
    /\ apc' = "for"
    /\ UNCHANGED <<params, N, result>>

\* run_simulation raised: nothing catches it
RunRaises ==
    /\ apc = "in_run"
    /\ pc = "error"
    /\ result' = [kind |-> "IndexError"]
    /\ apc' = "raised"
    /\ UNCHANGED <<params, locals, N, activity_counts, prime_counts>>

\* the loop is over: the statistics are computed and returned, or raise
ReturnStatistics ==
    /\ apc = "for"
    /\ Len(activity_counts) = N
    /\ result' = Statistics(activity_counts, prime_counts)
    /\ apc' = IF result'.kind = "stats" THEN "returned" ELSE "raised"
    /\ UNCHANGED <<params, locals, N, activity_counts, prime_counts>>

NextAnalysis ==
    \/ CallRun
    \/ Tick
    \/ CollectRun
    \/ RunRaises
    \/ ReturnStatistics

SpecAnalysis == InitAnalysis /\ [][NextAnalysis]_vars

\* C7: run_scenario_analysis with N < 2 ends in an error and returns no
\* statistics; with N >= 2 the statistics never raise, and what it returns is
\* computed from exactly N activity counts and N bonus counts, one pair from
\* each of exactly N completed runs.
C7_StatisticsNeedTwoRuns ==
    /\ (N < 2 => apc # "returned")
    /\ ((N < 2 /\ apc = "for" /\ Len(activity_counts) = N)
          => Statistics(activity_counts, prime_counts).kind = "StatisticsError")
    /\ (apc = "raised" =>
          \/ N < 2 /\ result.kind \in {"StatisticsError", "IndexError"}
          \/ N >= 2 /\ result.kind = "IndexError")
    /\ (apc = "returned" =>
          /\ N >= 2
          /\ Len(activity_counts) = N
          /\ Len(prime_counts) = N
          /\ result.kind = "stats"
          /\ result.samples = N
          /\ result.prime_samples = N
          /\ pc = "idle")

\* statistics returned from two runs that did not take as many activities
C7_Witness ==
    /\ apc = "returned"
    /\ N = 2
    /\ result.activity_min < result.activity_max

====
